---------------------------- MODULE Spec2Model ----------------------------
(***************************************************************************)
(* Model of the go-clockify client library (src/main.go).                  *)
(*                                                                         *)
(* Text (URLs, paths, ids, status lines, error messages) is a sequence of  *)
(* tokens.  The characters the library's conversions look at ("%", "?",    *)
(* "&", "=", "+", " ", the hexadecimal digits) are always tokens of their  *)
(* own; a longer token stands for a run of characters none of which is one *)
(* of those.  The empty string is << >>.                                   *)
(***************************************************************************)
EXTENDS Integers, Sequences, FiniteSets, TLC

VARIABLES
    mode,        \* which inputs the callers draw from: "seq", "conc" or "query"
    APIToken,    \* Session.APIToken
    opened,      \* the token OpenSession was given (history)
    logOutput,   \* dlog's writer: "stderr" or "discard"
    logFlags,    \* dlog's flags
    lastToggle,  \* the most recent of EnableLog/DisableLog, "none" before any (history)
    now,         \* the wall clock, in seconds
    crashed,     \* TRUE once a goroutine has panicked: the process is gone
    pc,          \* per caller: "idle", "sent", "done", "panic"
    call,        \* per caller: the operation in progress and its arguments
    req,         \* per caller: the arguments handed to Session.request
    wire,        \* per caller: the requests client.Do was given during this call
    resp,        \* per caller: what the network gave back
    ret,         \* per caller: the returned value and error
    printed,     \* per caller: the dlog.Printf calls this call has made (history)
    lines        \* per caller: the lines this call wrote to os.Stderr

vars == <<mode, APIToken, opened, logOutput, logFlags, lastToggle, now, crashed,
          pc, call, req, wire, resp, ret, printed, lines>>

---------------------------------------------------------------------------
(* Bounds *)

NumThreads == 2     \* goroutines sharing the Session in the concurrent runs
MaxClock == 1       \* the clock runs from 0 to MaxClock
MaxValueLen == 2    \* tokens of a query parameter value

---------------------------------------------------------------------------
(* Text *)

ClockifyAPI == <<"https://api.clockify.me/api/v1">>

HexDigits == {"0", "1", "2", "3", "4", "5", "6", "7", "8", "9",
              "a", "b", "c", "d", "e", "f", "A", "B", "C", "D", "E", "F"}

\* The parts one after another, sep between them
RECURSIVE Join(_, _)
Join(parts, sep) ==
    IF parts = << >> THEN << >>
    ELSE IF Len(parts) = 1 THEN parts[1]
    ELSE parts[1] \o sep \o Join(Tail(parts), sep)

\* fmt: the arguments left over when the format is exhausted
RECURSIVE ExtraArgs(_)
ExtraArgs(args) ==
    IF args = << >> THEN << >>
    ELSE <<"string=">> \o Head(args)
         \o (IF Len(args) > 1 THEN <<", ">> ELSE << >>) \o ExtraArgs(Tail(args))

\* fmt.Sprintf with string arguments.  A verb is the token "%" followed by the
\* verb's token.  Flags, width and precision are not modelled: no format used
\* here has them.
RECURSIVE Sprintf(_, _)
Sprintf(format, args) ==
    IF format = << >>
    THEN IF args = << >> THEN << >>
         ELSE <<"%", "!", "(", "EXTRA ">> \o ExtraArgs(args) \o <<")">>
    ELSE IF Head(format) # "%"
    THEN <<Head(format)>> \o Sprintf(Tail(format), args)
    ELSE IF Len(format) = 1
    THEN <<"%", "!", "(", "NOVERB)">> \o Sprintf(<< >>, args)
    ELSE LET verb == format[2]
             rest == SubSeq(format, 3, Len(format))
         IN  IF verb = "%" THEN <<"%">> \o Sprintf(rest, args)
             ELSE IF args = << >>
             THEN <<"%", "!", verb, "(MISSING)">> \o Sprintf(rest, args)
             ELSE IF verb \in {"s", "v"}
             THEN Head(args) \o Sprintf(rest, Tail(args))
             ELSE <<"%", "!", verb, "(string=">> \o Head(args) \o <<")">>
                  \o Sprintf(rest, Tail(args))

\* fmt.Errorf(format): the message of the error
Errorf(format) == Sprintf(format, << >>)

\* The part of a URL before its query
RECURSIVE BeforeQuery(_)
BeforeQuery(u) ==
    IF u = << >> \/ Head(u) = "?" THEN << >>
    ELSE <<Head(u)>> \o BeforeQuery(Tail(u))

\* url.Parse, as http.NewRequest uses it: every "%" of the part before the
\* query must start a two-digit hexadecimal escape
ValidEscapes(s) ==
    \A i \in 1..Len(s) :
        s[i] = "%" => /\ i + 2 <= Len(s)
                      /\ s[i + 1] \in HexDigits
                      /\ s[i + 2] \in HexDigits

NewRequestOK(requestURL) == ValidEscapes(BeforeQuery(requestURL))

---------------------------------------------------------------------------
(* Query strings (net/url) *)

\* The order of Go's string comparison on the tokens a key is made of
ByteRank(c) ==
    CASE c = " " -> 1
      [] c = "%" -> 2
      [] c = "&" -> 3
      [] c = "+" -> 4
      [] c = "=" -> 5
      [] c = "a" -> 6
      [] c = "b" -> 7
      [] OTHER -> 8

RECURSIVE StrLess(_, _)
StrLess(s, t) ==
    IF t = << >> THEN FALSE
    ELSE IF s = << >> THEN TRUE
    ELSE IF ByteRank(Head(s)) # ByteRank(Head(t))
    THEN ByteRank(Head(s)) < ByteRank(Head(t))
    ELSE StrLess(Tail(s), Tail(t))

\* (mutant) nothing is escaped
EscapeCharVerbatim(c) == <<c>>

\* url.QueryEscape
EscapeChar(c) ==
    CASE c = " " -> <<"+">>
      [] c = "%" -> <<"%", "2", "5">>
      [] c = "&" -> <<"%", "2", "6">>
      [] c = "+" -> <<"%", "2", "B">>
      [] c = "=" -> <<"%", "3", "D">>
      [] OTHER -> <<c>>

RECURSIVE QueryEscape(_)
QueryEscape(s) ==
    IF s = << >> THEN << >> ELSE EscapeChar(Head(s)) \o QueryEscape(Tail(s))

\* sort.Strings over the keys of a url.Values
RECURSIVE SortedKeys(_)
SortedKeys(keys) ==
    IF keys = {} THEN << >>
    ELSE LET least == CHOOSE k \in keys : \A o \in keys \ {k} : StrLess(k, o)
         IN  <<least>> \o SortedKeys(keys \ {least})

\* url.Values.Encode, for values built with Set (one value per key)
RECURSIVE EncodePairs(_, _)
EncodePairs(keys, data) ==
    IF keys = << >> THEN << >>
    ELSE QueryEscape(Head(keys)) \o <<"=">> \o QueryEscape(data[Head(keys)])
         \o (IF Len(keys) > 1 THEN <<"&">> ELSE << >>)
         \o EncodePairs(Tail(keys), data)

Encode(data) == EncodePairs(SortedKeys(DOMAIN data), data)

---------------------------------------------------------------------------
(* Errors *)

NoErr == [kind |-> "nil", msg |-> << >>]
Err(kind, msg) == [kind |-> kind, msg |-> msg]

NetworkError == Err("network", <<"dial tcp: i/o timeout">>)
ReadError == Err("read", <<"unexpected EOF">>)
SyntaxError == Err("json.SyntaxError", << >>)
TypeError == Err("json.UnmarshalTypeError", << >>)
EOFError == Err("io.EOF", <<"EOF">>)
UnsupportedTypeError == Err("json.UnsupportedTypeError", << >>)

---------------------------------------------------------------------------
(* JSON (encoding/json)                                                    *)
(*                                                                         *)
(* A member value is [t, v]: its JSON type and its content as a sequence   *)
(* of tokens (the text of a string, the elements of an array of strings,   *)
(* "true"/"false").  An object is a function from its keys to member       *)
(* values.  A document is a top-level value.  A byte slice holding JSON is *)
(* [nil, syn, doc, trail]: syn tells whether the bytes are empty, start    *)
(* with something that is no JSON value ("garbage"), or start with the     *)
(* value doc; trail tells whether non-blank bytes follow the value.        *)

JString(s) == [t |-> "string", v |-> s]
JBool(b) == [t |-> "bool", v |-> <<IF b THEN "true" ELSE "false">>]
JNumber(n) == [t |-> "number", v |-> <<n>>]
JArray(elems) == [t |-> "array", v |-> elems]
JNull == [t |-> "null", v |-> << >>]

EmptyObject == [k \in {} |-> JNull]

NullDoc == [t |-> "null", obj |-> EmptyObject, elems |-> << >>]
ObjectDoc(o) == [t |-> "object", obj |-> o, elems |-> << >>]
ArrayDoc(es) == [t |-> "array", obj |-> EmptyObject, elems |-> es]
StringDoc == [t |-> "string", obj |-> EmptyObject, elems |-> << >>]

NilBytes == [nil |-> TRUE, syn |-> "empty", doc |-> NullDoc, trail |-> FALSE]
EmptyBytes == [nil |-> FALSE, syn |-> "empty", doc |-> NullDoc, trail |-> FALSE]
GarbageBytes == [nil |-> FALSE, syn |-> "garbage", doc |-> NullDoc, trail |-> FALSE]
JSONBytes(d) == [nil |-> FALSE, syn |-> "value", doc |-> d, trail |-> FALSE]
WithTrailing(b) == [b EXCEPT !.trail = TRUE]

\* One member of an object under construction; omitted when omit holds
Member(key, value, omit) == IF omit THEN EmptyObject ELSE key :> value

\* The whole of the bytes is one JSON value (json.Valid)
ValidJSON(data) == data.syn = "value" /\ ~data.trail

\* A member of the wrong JSON type for the field it names
Mismatch(o, key, type) == key \in DOMAIN o /\ o[key].t \notin {type, "null"}

StringField(o, key) ==
    IF key \in DOMAIN o /\ o[key].t = "string" THEN o[key].v ELSE << >>
BoolField(o, key) ==
    key \in DOMAIN o /\ o[key].t = "bool" /\ o[key].v = <<"true">>
StringsField(o, key) ==
    IF key \in DOMAIN o /\ o[key].t = "array" THEN o[key].v ELSE << >>

---------------------------------------------------------------------------
(* Data-transfer types.  Only the fields the operations below read or the  *)
(* server's answers here carry are kept: an Account is its id, name and    *)
(* email, a TimeEntry has no TimeInterval.                                 *)

ZeroAccount == [ID |-> << >>, Name |-> << >>, Email |-> << >>]
ZeroProjects == << >>
ZeroTimeEntry == [Wid |-> << >>, ID |-> << >>, Pid |-> << >>, Tid |-> << >>,
                  Description |-> << >>, Tags |-> << >>, Billable |-> FALSE]
ZeroTimeEntryRequest == [Start |-> << >>, Pid |-> << >>, Tid |-> << >>,
                         Description |-> << >>, End |-> << >>, Tags |-> << >>,
                         Billable |-> FALSE]

\* The struct tags: JSON key and JSON type of each field
AccountTags == {<<"id", "string">>, <<"name", "string">>, <<"email", "string">>}
ProjectTags == {<<"workspaceId", "string">>, <<"id", "string">>, <<"name", "string">>,
                <<"archived", "bool">>, <<"billable", "bool">>}
TimeEntryTags == {<<"workspaceId", "string">>, <<"id", "string">>, <<"pid", "string">>,
                  <<"taskId", "string">>, <<"description", "string">>,
                  <<"tagIds", "array">>, <<"billable", "bool">>}

AnyMismatch(o, tags) == \E f \in tags : Mismatch(o, f[1], f[2])

AccountOf(o) ==
    [ID |-> StringField(o, "id"), Name |-> StringField(o, "name"),
     Email |-> StringField(o, "email")]

ProjectOf(o) ==
    [Wid |-> StringField(o, "workspaceId"), ID |-> StringField(o, "id"),
     Name |-> StringField(o, "name"), Active |-> BoolField(o, "archived"),
     Billable |-> BoolField(o, "billable")]

\* The key the TimeEntry struct reads the project id from
TimeEntryPidKey == "pid"

TimeEntryOf(o) ==
    [Wid |-> StringField(o, "workspaceId"), ID |-> StringField(o, "id"),
     Pid |-> StringField(o, TimeEntryPidKey), Tid |-> StringField(o, "taskId"),
     Description |-> StringField(o, "description"),
     Tags |-> StringsField(o, "tagIds"), Billable |-> BoolField(o, "billable")]

\* Project.IsActive
IsActive(p) == p.Active

\* json.Marshal of a TimeEntryRequest: every field is omitempty
MarshalTimeEntryRequest(r) ==
    JSONBytes(ObjectDoc(
        Member("start", JString(r.Start), r.Start = << >>)
        @@ Member("projectId", JString(r.Pid), r.Pid = << >>)
        @@ Member("taskId", JString(r.Tid), r.Tid = << >>)
        @@ Member("description", JString(r.Description), r.Description = << >>)
        @@ Member("end", JString(r.End), r.End = << >>)
        @@ Member("tagIds", JArray(r.Tags), r.Tags = << >>)
        @@ Member("billable", JBool(r.Billable), ~r.Billable)))

\* Decoding a document into a struct: null leaves the zero value, an object
\* fills the fields it names (a member of the wrong type is skipped and
\* reported), any other value is a type error
DecodeStruct(d, zero, filled, tags) ==
    CASE d.t = "null" -> [val |-> zero, err |-> NoErr]
      [] d.t = "object" ->
            [val |-> filled,
             err |-> IF AnyMismatch(d.obj, tags) THEN TypeError ELSE NoErr]
      [] OTHER -> [val |-> zero, err |-> TypeError]

\* Decoding a document into a []Project
DecodeProjects(d) ==
    CASE d.t = "null" -> [val |-> ZeroProjects, err |-> NoErr]
      [] d.t = "array" ->
            [val |-> [i \in 1..Len(d.elems) |-> ProjectOf(d.elems[i])],
             err |-> IF \E i \in 1..Len(d.elems) : AnyMismatch(d.elems[i], ProjectTags)
                     THEN TypeError ELSE NoErr]
      [] OTHER -> [val |-> ZeroProjects, err |-> TypeError]

\* json.Unmarshal(data, &entry): the whole input is checked before anything
\* is decoded
UnmarshalTimeEntry(data) ==
    IF ~ValidJSON(data) THEN [val |-> ZeroTimeEntry, err |-> SyntaxError]
    ELSE DecodeStruct(data.doc, ZeroTimeEntry, TimeEntryOf(data.doc.obj), TimeEntryTags)

\* json.Unmarshal(data, &projects)
UnmarshalProjects(data) ==
    IF ~ValidJSON(data) THEN [val |-> ZeroProjects, err |-> SyntaxError]
    ELSE DecodeProjects(data.doc)

\* json.NewDecoder(r).Decode(account): reads the first value of the stream and
\* leaves what follows it unread
DecoderDecodeAccount(data) ==
    CASE data.syn = "empty" -> [val |-> ZeroAccount, err |-> EOFError]
      [] data.syn = "garbage" -> [val |-> ZeroAccount, err |-> SyntaxError]
      [] OTHER -> DecodeStruct(data.doc, ZeroAccount, AccountOf(data.doc.obj), AccountTags)

decodeAccount(data) == DecoderDecodeAccount(data)

---------------------------------------------------------------------------
(* The logger (package variable dlog) *)

LstdFlags == 3

\* log.Logger.Printf, n times: what the writer has received afterwards
Printf(output, written, n) == IF output = "stderr" THEN written + n ELSE written

\* (mutant) EnableLog restores the flags and leaves the writer as it is
EnableLogOutputKept == logOutput

\* The writer EnableLog installs
EnableLogOutput == "stderr"

\* The writer DisableLog installs
DisableLogOutput == "discard"

---------------------------------------------------------------------------
(* Session and transport helpers *)

OpenSession(apiToken) == apiToken

\* (mutant) the application's name is sent in place of the token
ApiKeyHeaderAppName(token) == <<"go-clockify">>

\* The X-Api-Key header request() adds: none when the token is empty
ApiKeyHeader(token) == token

\* (mutant) only the server's own failures are reported
StatusIsErrorFrom500(code) == code < 200 \/ code >= 500

\* request(): the status codes that are reported as errors
StatusIsError(code) == code < 200 \/ code >= 400

\* request(): what is handed to client.Do
requestSend(token, r) ==
    [method |-> r.method, url |-> r.url, body |-> r.body,
     apiKey |-> ApiKeyHeader(token), contentType |-> "application/json"]

\* request(): from client.Do's answer to the return
requestReceive(r) ==
    IF r.neterr THEN [val |-> NilBytes, err |-> NetworkError]
    ELSE IF r.readerr THEN [val |-> NilBytes, err |-> ReadError]
    ELSE IF StatusIsError(r.code)
    THEN [val |-> r.body, err |-> Err("status", Errorf(r.status))]
    ELSE [val |-> r.body, err |-> NoErr]

\* The data interface{} handed to post, put and patch
NilData == [kind |-> "nil", ter |-> ZeroTimeEntryRequest]
RequestData(r) == [kind |-> "TimeEntryRequest", ter |-> r]
ChanData == [kind |-> "chan", ter |-> ZeroTimeEntryRequest]

\* The params map handed to get: a nil map, or a map from keys to values
NoParams == [k \in {} |-> << >>]
NilParams == [nil |-> TRUE, m |-> NoParams]
Params(m) == [nil |-> FALSE, m |-> m]

\* json.Marshal(data), behind the data != nil test of post, put and patch
Marshal(data) ==
    CASE data.kind = "nil" -> [val |-> EmptyBytes, err |-> NoErr]
      [] data.kind = "chan" -> [val |-> NilBytes, err |-> UnsupportedTypeError]
      [] OTHER -> [val |-> MarshalTimeEntryRequest(data.ter), err |-> NoErr]

\* Each helper up to its call of request(): the request it asks for, the error
\* it returns instead, and the lines it logs
get(requestURL, path, params) ==
    [method |-> "GET",
     url |-> requestURL \o path
             \o (IF params.nil THEN << >> ELSE <<"?">> \o Encode(params.m)),
     body |-> NilBytes, err |-> NoErr, logs |-> 1]

post(requestURL, path, data) ==
    LET m == Marshal(data)
    IN  [method |-> "POST", url |-> requestURL \o path, body |-> m.val,
         err |-> m.err, logs |-> IF m.err = NoErr THEN 2 ELSE 0]

put(requestURL, path, data) ==
    LET m == Marshal(data)
    IN  [method |-> "PUT", url |-> requestURL \o path, body |-> m.val,
         err |-> m.err, logs |-> IF m.err = NoErr THEN 1 ELSE 0]

patch(requestURL, path, data) ==
    LET m == Marshal(data)
    IN  [method |-> "PATCH", url |-> requestURL \o path, body |-> m.val,
         err |-> m.err, logs |-> IF m.err = NoErr THEN 1 ELSE 0]

delete(requestURL, path) ==
    [method |-> "DELETE", url |-> requestURL \o path, body |-> NilBytes,
     err |-> NoErr, logs |-> 1]

\* time.Now().UTC().Format(time.RFC3339)
FormatRFC3339(t) == <<"2026-11-02T10:00:0", ToString(t), "Z">>

---------------------------------------------------------------------------
(* Resource operations: the part of each after its helper has returned *)

requestTimeEntry(data, err) ==
    IF err # NoErr THEN [val |-> ZeroTimeEntry, err |-> err]
    ELSE LET u == UnmarshalTimeEntry(data)
         IN  IF u.err # NoErr THEN [val |-> ZeroTimeEntry, err |-> u.err]
             ELSE [val |-> u.val, err |-> NoErr]

GetAccountResult(data, err) ==
    IF err # NoErr THEN [val |-> ZeroAccount, err |-> err]
    ELSE decodeAccount(data)

GetProjectsResult(data, err) ==
    IF err # NoErr THEN [val |-> ZeroProjects, err |-> err]
    ELSE UnmarshalProjects(data)

TimeEntryOps == {"StartTimeEntry", "GetTimeEntry", "ContinueTimeEntry", "StopTimeEntry"}
TypedOps == TimeEntryOps \cup {"GetAccount", "GetProjects"}
ResourceOps == TypedOps \cup {"DeleteTimeEntry"}
HelperOps == {"get", "post", "put", "patch"}

\* What the operation returns, given what its helper returned
Result(op, r) ==
    CASE op \in TimeEntryOps -> requestTimeEntry(r.val, r.err)
      [] op = "GetAccount" -> GetAccountResult(r.val, r.err)
      [] op = "GetProjects" -> GetProjectsResult(r.val, r.err)
      [] OTHER -> r

\* The dlog.Printf calls of the operation after its helper has returned
LogsAfter(op, r) ==
    IF op \in TimeEntryOps \cup {"GetProjects"} /\ r.err = NoErr THEN 1 ELSE 0

\* (mutant) the tags are left behind
ContinueRequestWithoutTags(timer, start) ==
    [ZeroTimeEntryRequest EXCEPT
        !.Start = start, !.Pid = timer.Pid, !.Tid = timer.Tid,
        !.Description = timer.Description, !.Billable = timer.Billable]

\* ContinueTimeEntry: the request built from the source entry
ContinueRequest(timer, start) ==
    [ZeroTimeEntryRequest EXCEPT
        !.Start = start, !.Pid = timer.Pid, !.Tid = timer.Tid,
        !.Description = timer.Description, !.Tags = timer.Tags,
        !.Billable = timer.Billable]

\* StopTimeEntry: the request it sends
StopRequest(end) == [ZeroTimeEntryRequest EXCEPT !.End = end]

\* The path of StopTimeEntry had the pattern been used as written, without
\* passing it through fmt.Sprintf
StopPathLiteral(workspaceID, userID) ==
    <<"/workspaces/{workspaceId}/user/{userId}/time-entries">>

\* StopTimeEntry: its path
StopPath(workspaceID, userID) ==
    Sprintf(<<"/workspaces/{workspaceId}/user/{userId}/time-entries">>,
            <<workspaceID, userID>>)

---------------------------------------------------------------------------
(* Inputs: what the callers pass and what the network answers *)

Procs == IF mode = "conc" THEN 1..NumThreads ELSE {1}

Tokens == {<< >>, <<"tok">>}

GoodID == <<"w1">>
EscapedID == <<"%", "2", "0">>
BadID == <<"%", "z", "z">>

WorkspaceIDs == IF mode = "seq" THEN {GoodID, EscapedID, BadID} ELSE {GoodID}
UserIDs == IF mode = "seq" THEN {<<"u1">>, <<"u2">>} ELSE {<<"u1">>}
EntryIDs == IF mode = "seq" THEN {<<"e1">>, <<"%">>} ELSE {<<"e1">>}

\* A request or an entry with every field set, and the ones with one field
\* cleared, and the empty one
FullRequest ==
    [ZeroTimeEntryRequest EXCEPT
        !.Start = <<"2026-11-02T09:00:00Z">>, !.Pid = <<"p1">>, !.Tid = <<"t1">>,
        !.Description = <<"write report">>, !.Tags = <<"g1", "g2">>, !.Billable = TRUE]

TimeEntryRequests ==
    IF mode = "seq"
    THEN {ZeroTimeEntryRequest, FullRequest,
          [FullRequest EXCEPT !.Pid = << >>], [FullRequest EXCEPT !.Tid = << >>],
          [FullRequest EXCEPT !.Description = << >>], [FullRequest EXCEPT !.Tags = << >>],
          [FullRequest EXCEPT !.Billable = FALSE],
          [ZeroTimeEntryRequest EXCEPT !.Pid = <<"p1">>]}
    ELSE {[ZeroTimeEntryRequest EXCEPT !.Pid = <<"p1">>, !.Billable = TRUE]}

FullEntry ==
    [Wid |-> GoodID, ID |-> <<"e1">>, Pid |-> <<"p1">>, Tid |-> <<"t1">>,
     Description |-> <<"write report">>, Tags |-> <<"g1", "g2">>, Billable |-> TRUE]

TimeEntries ==
    IF mode = "seq"
    THEN {[FullEntry EXCEPT !.Wid = w] : w \in WorkspaceIDs} \cup
         {[ZeroTimeEntry EXCEPT !.Wid = GoodID],
          [FullEntry EXCEPT !.Pid = << >>], [FullEntry EXCEPT !.Tid = << >>],
          [FullEntry EXCEPT !.Description = << >>], [FullEntry EXCEPT !.Tags = << >>],
          [FullEntry EXCEPT !.Billable = FALSE]}
    ELSE {FullEntry}

QueryAlphabet == {"a", " ", "&", "=", "%"}
QueryKeys == {<<"a">>, <<"b", "=">>}
QueryValues == UNION {[1..n -> QueryAlphabet] : n \in 0..MaxValueLen}

ParamMaps ==
    IF mode = "query"
    THEN {NilParams} \cup
         {Params(m) : m \in UNION {[ks -> QueryValues] : ks \in SUBSET QueryKeys}}
    ELSE {NilParams, Params(NoParams), Params(<<"a">> :> <<"a", " ", "b">>)}

HelperData == {NilData, ChanData, RequestData(ZeroTimeEntryRequest)}

\* Response bodies
EntryJSON ==
    JSONBytes(ObjectDoc(
        ("id" :> JString(<<"e1">>)) @@ ("workspaceId" :> JString(GoodID))
        @@ ("pid" :> JString(<<"p1">>)) @@ ("taskId" :> JString(<<"t1">>))
        @@ ("tagIds" :> JArray(<<"g1">>)) @@ ("billable" :> JBool(TRUE))))
AccountJSON ==
    JSONBytes(ObjectDoc(
        ("id" :> JString(<<"u1">>)) @@ ("name" :> JString(<<"Ann">>))
        @@ ("email" :> JString(<<"ann@example.org">>))))
ProjectsJSON ==
    JSONBytes(ArrayDoc(<<
        ("id" :> JString(<<"p1">>)) @@ ("workspaceId" :> JString(GoodID))
        @@ ("name" :> JString(<<"Site">>)) @@ ("archived" :> JBool(FALSE))
        @@ ("billable" :> JBool(TRUE)),
        ("id" :> JString(<<"p2">>)) @@ ("workspaceId" :> JString(GoodID))
        @@ ("name" :> JString(<<"Old">>)) @@ ("archived" :> JBool(TRUE))
        @@ ("billable" :> JBool(FALSE))>>))
WrongTypeJSON == JSONBytes(ObjectDoc("id" :> JNumber("5")))
UnknownKeyJSON == JSONBytes(ObjectDoc("message" :> JString(<<"hello">>)))

Bodies ==
    {EmptyBytes, GarbageBytes, JSONBytes(NullDoc), JSONBytes(StringDoc),
     EntryJSON, AccountJSON, ProjectsJSON, WrongTypeJSON, UnknownKeyJSON,
     WithTrailing(EntryJSON), WithTrailing(AccountJSON), WithTrailing(ProjectsJSON),
     WithTrailing(UnknownKeyJSON)}

Statuses ==
    {[code |-> 200, status |-> <<"200 OK">>],
     [code |-> 400, status |-> <<"400 Bad Request">>],
     [code |-> 404, status |-> <<"404 Not Found">>],
     [code |-> 500, status |-> <<"500 100", "%">>]}

Answer(code, status, body) ==
    [neterr |-> FALSE, readerr |-> FALSE, code |-> code, status |-> status, body |-> body]
NoAnswer == Answer(0, << >>, NilBytes)
ConnectFailure == [NoAnswer EXCEPT !.neterr = TRUE]
ReadFailure == [Answer(200, <<"200 OK">>, NilBytes) EXCEPT !.readerr = TRUE]

\* A server that answers a create with the posted object plus the id it assigned
ServerID == <<"srv-1">>
Echo(posted) ==
    Answer(201, <<"201 Created">>,
           JSONBytes(ObjectDoc(("id" :> JString(ServerID)) @@ posted.doc.obj)))

\* What the network may give back for a request: in the sequential runs any
\* status with any body, a failure, or the echo of a posted object
Responses(sent) ==
    IF mode = "seq"
    THEN {ConnectFailure, ReadFailure}
         \cup {Answer(s.code, s.status, b) : s \in Statuses, b \in Bodies}
         \cup (IF sent.method = "POST" /\ sent.body.syn = "value"
               THEN {Echo(sent.body)} ELSE {})
    ELSE {ConnectFailure, Answer(200, <<"200 OK">>, EntryJSON),
          Answer(404, <<"404 Not Found">>, GarbageBytes)}

---------------------------------------------------------------------------
(* State machine *)

NoCall == [op |-> "none", ws |-> << >>, id |-> << >>, ter |-> ZeroTimeEntryRequest,
           timer |-> ZeroTimeEntry, duronly |-> FALSE, params |-> NilParams,
           data |-> NilData, at |-> 0]
NoReq == [method |-> "", url |-> << >>, body |-> NilBytes]
NoRet == [val |-> NilBytes, err |-> NoErr]

InitMode(m) ==
    /\ mode = m
    /\ opened \in Tokens
    /\ APIToken = OpenSession(opened)
    /\ logOutput = "stderr"
    /\ logFlags = LstdFlags
    /\ lastToggle = "none"
    /\ now = 0
    /\ crashed = FALSE
    /\ pc = [t \in Procs |-> "idle"]
    /\ call = [t \in Procs |-> NoCall]
    /\ req = [t \in Procs |-> NoReq]
    /\ wire = [t \in Procs |-> << >>]
    /\ resp = [t \in Procs |-> NoAnswer]
    /\ ret = [t \in Procs |-> NoRet]
    /\ printed = [t \in Procs |-> 0]
    /\ lines = [t \in Procs |-> 0]

Init == InitMode("seq")
InitConc == InitMode("conc")
InitQuery == InitMode("query")

\* A call from its entry to the point where it waits for the network: pre is
\* the number of lines the operation logs before it calls its helper, plan is
\* what the helper has prepared.  request() uses the *http.Request whether or
\* not http.NewRequest could build it.
Idle(t) == ~crashed /\ pc[t] = "idle"

Invoke(t, c, plan, pre) ==
    /\ Idle(t)
    /\ call' = [call EXCEPT ![t] = [c EXCEPT !.at = now]]
    /\ req' = [req EXCEPT ![t] = [method |-> plan.method, url |-> plan.url,
                                  body |-> plan.body]]
    /\ printed' = [printed EXCEPT ![t] = pre + plan.logs]
    /\ lines' = [lines EXCEPT ![t] = Printf(logOutput, 0, pre + plan.logs)]
    /\ IF plan.err # NoErr
       THEN /\ pc' = [pc EXCEPT ![t] = "done"]
            /\ ret' = [ret EXCEPT ![t] = Result(c.op, [val |-> NilBytes, err |-> plan.err])]
            /\ UNCHANGED <<wire, crashed>>
       ELSE IF ~NewRequestOK(plan.url)
       THEN /\ pc' = [pc EXCEPT ![t] = "panic"]
            /\ crashed' = TRUE
            /\ UNCHANGED <<wire, ret>>
       ELSE /\ pc' = [pc EXCEPT ![t] = "sent"]
            /\ wire' = [wire EXCEPT ![t] = Append(wire[t], requestSend(APIToken, req'[t]))]
            /\ UNCHANGED <<crashed, ret>>
    /\ UNCHANGED <<mode, APIToken, opened, logOutput, logFlags, lastToggle, now, resp>>

GetAccount(t) ==
    /\ Idle(t)
    /\ Invoke(t, [NoCall EXCEPT !.op = "GetAccount"],
              get(ClockifyAPI, <<"/user">>, NilParams), 0)

StartTimeEntry(t) ==
    /\ Idle(t)
    /\ \E workspaceID \in WorkspaceIDs, timeEntryRequest \in TimeEntryRequests :
           Invoke(t, [NoCall EXCEPT !.op = "StartTimeEntry", !.ws = workspaceID,
                                    !.ter = timeEntryRequest],
                  post(ClockifyAPI,
                       Sprintf(<<"/workspaces/", "%", "s", "/time-entries">>, <<workspaceID>>),
                       RequestData(timeEntryRequest)), 0)

GetTimeEntry(t) ==
    /\ Idle(t)
    /\ \E workspaceID \in WorkspaceIDs, timeEntryID \in EntryIDs :
           Invoke(t, [NoCall EXCEPT !.op = "GetTimeEntry", !.ws = workspaceID,
                                    !.id = timeEntryID],
                  get(ClockifyAPI,
                      Sprintf(<<"/workspaces/", "%", "s", "/time-entries/", "%", "s">>,
                              <<workspaceID, timeEntryID>>),
                      NilParams), 0)

DeleteTimeEntry(t) ==
    /\ Idle(t)
    /\ \E workspaceID \in WorkspaceIDs, timeEntryID \in EntryIDs :
           Invoke(t, [NoCall EXCEPT !.op = "DeleteTimeEntry", !.ws = workspaceID,
                                    !.id = timeEntryID],
                  delete(ClockifyAPI,
                         Sprintf(<<"/workspaces/", "%", "s", "/time-entries/", "%", "s">>,
                                 <<workspaceID, timeEntryID>>)), 1)

ContinueTimeEntry(t) ==
    /\ Idle(t)
    /\ \E timer \in TimeEntries, duronly \in BOOLEAN :
           Invoke(t, [NoCall EXCEPT !.op = "ContinueTimeEntry", !.timer = timer,
                                    !.duronly = duronly],
                  post(ClockifyAPI,
                       Sprintf(<<"/workspaces/", "%", "s", "/time-entries">>, <<timer.Wid>>),
                       RequestData(ContinueRequest(timer, FormatRFC3339(now)))), 1)

StopTimeEntry(t) ==
    /\ Idle(t)
    /\ \E workspaceID \in WorkspaceIDs, userID \in UserIDs :
           Invoke(t, [NoCall EXCEPT !.op = "StopTimeEntry", !.ws = workspaceID,
                                    !.id = userID],
                  patch(ClockifyAPI, StopPath(workspaceID, userID),
                        RequestData(StopRequest(FormatRFC3339(now)))), 1)

GetProjects(t) ==
    /\ Idle(t)
    /\ \E workspaceID \in WorkspaceIDs \cup {BadID} :
           Invoke(t, [NoCall EXCEPT !.op = "GetProjects", !.ws = workspaceID],
                  get(ClockifyAPI,
                      Sprintf(<<"/workspaces/", "%", "s", "/projects">>, <<workspaceID>>),
                      NilParams), 1)

\* The helpers called on their own, with any params or data
Get(t) ==
    /\ Idle(t)
    /\ \E params \in ParamMaps :
           Invoke(t, [NoCall EXCEPT !.op = "get", !.params = params],
                  get(ClockifyAPI, <<"/user">>, params), 0)

Post(t) ==
    /\ Idle(t)
    /\ \E data \in HelperData :
           Invoke(t, [NoCall EXCEPT !.op = "post", !.data = data],
                  post(ClockifyAPI, <<"/tags">>, data), 0)

Put(t) ==
    /\ Idle(t)
    /\ \E data \in HelperData :
           Invoke(t, [NoCall EXCEPT !.op = "put", !.data = data],
                  put(ClockifyAPI, <<"/tags">>, data), 0)

Patch(t) ==
    /\ Idle(t)
    /\ \E data \in HelperData :
           Invoke(t, [NoCall EXCEPT !.op = "patch", !.data = data],
                  patch(ClockifyAPI, <<"/tags">>, data), 0)

\* The network answers and the call runs to its return
Respond(t) ==
    /\ ~crashed
    /\ pc[t] = "sent"
    /\ \E r \in Responses(wire[t][Len(wire[t])]) :
        LET got == requestReceive(r)
            n == LogsAfter(call[t].op, got)
        IN  /\ resp' = [resp EXCEPT ![t] = r]
            /\ ret' = [ret EXCEPT ![t] = Result(call[t].op, got)]
            /\ printed' = [printed EXCEPT ![t] = @ + n]
            /\ lines' = [lines EXCEPT ![t] = Printf(logOutput, @, n)]
    /\ pc' = [pc EXCEPT ![t] = "done"]
    /\ UNCHANGED <<mode, APIToken, opened, logOutput, logFlags, lastToggle, now,
                   crashed, call, req, wire>>

\* The caller has its result and is ready for another call
Return(t) ==
    /\ ~crashed
    /\ pc[t] = "done"
    /\ pc' = [pc EXCEPT ![t] = "idle"]
    /\ call' = [call EXCEPT ![t] = NoCall]
    /\ req' = [req EXCEPT ![t] = NoReq]
    /\ wire' = [wire EXCEPT ![t] = << >>]
    /\ resp' = [resp EXCEPT ![t] = NoAnswer]
    /\ ret' = [ret EXCEPT ![t] = NoRet]
    /\ printed' = [printed EXCEPT ![t] = 0]
    /\ lines' = [lines EXCEPT ![t] = 0]
    /\ UNCHANGED <<mode, APIToken, opened, logOutput, logFlags, lastToggle, now, crashed>>

DisableLog ==
    /\ ~crashed
    /\ logFlags' = 0
    /\ logOutput' = DisableLogOutput
    /\ lastToggle' = "disable"
    /\ UNCHANGED <<mode, APIToken, opened, now, crashed, pc, call, req, wire, resp,
                   ret, printed, lines>>

EnableLog ==
    /\ ~crashed
    /\ logFlags' = logFlags
    /\ logOutput' = EnableLogOutput
    /\ lastToggle' = "enable"
    /\ UNCHANGED <<mode, APIToken, opened, now, crashed, pc, call, req, wire, resp,
                   ret, printed, lines>>

Tick ==
    /\ ~crashed
    /\ now < MaxClock
    /\ now' = now + 1
    /\ UNCHANGED <<mode, APIToken, opened, logOutput, logFlags, lastToggle, crashed,
                   pc, call, req, wire, resp, ret, printed, lines>>

Next ==
    \/ \E t \in Procs : GetAccount(t)
    \/ \E t \in Procs : StartTimeEntry(t)
    \/ \E t \in Procs : GetTimeEntry(t)
    \/ \E t \in Procs : DeleteTimeEntry(t)
    \/ \E t \in Procs : ContinueTimeEntry(t)
    \/ \E t \in Procs : StopTimeEntry(t)
    \/ \E t \in Procs : GetProjects(t)
    \/ \E t \in Procs : Get(t)
    \/ \E t \in Procs : Post(t)
    \/ \E t \in Procs : Put(t)
    \/ \E t \in Procs : Patch(t)
    \/ \E t \in Procs : Respond(t)
    \/ \E t \in Procs : Return(t)
    \/ DisableLog
    \/ EnableLog
    \/ Tick

NextConc ==
    \/ \E t \in Procs : GetAccount(t)
    \/ \E t \in Procs : StartTimeEntry(t)
    \/ \E t \in Procs : DeleteTimeEntry(t)
    \/ \E t \in Procs : GetProjects(t)
    \/ \E t \in Procs : Respond(t)
    \/ \E t \in Procs : Return(t)
    \/ DisableLog
    \/ EnableLog

NextQuery ==
    \/ \E t \in Procs : Get(t)
    \/ \E t \in Procs : Respond(t)
    \/ \E t \in Procs : Return(t)

Spec == Init /\ [][Next]_vars
SpecConc == InitConc /\ [][NextConc]_vars
SpecQuery == InitQuery /\ [][NextQuery]_vars

---------------------------------------------------------------------------
(* Properties *)

\* The caller's call has returned
Returned(t) == pc[t] = "done"

\* The server answered the caller's request and the answer was read in full
Answered(t) == Returned(t) /\ wire[t] # << >> /\ ~resp[t].neterr /\ ~resp[t].readerr

StatusOutside(t) == resp[t].code < 200 \/ resp[t].code >= 400

ZeroOf(op) ==
    CASE op \in TimeEntryOps -> ZeroTimeEntry
      [] op = "GetAccount" -> ZeroAccount
      [] op = "GetProjects" -> ZeroProjects
      [] OTHER -> NilBytes

\* C1: a typed operation whose request was answered with a status outside
\* [200,400) returns a non-nil error and the zero value of its type, whatever
\* the body of the answer holds: nothing of the body is decoded.
C1_ErrorStatusNotDecoded ==
    \A t \in Procs :
        (Answered(t) /\ call[t].op \in TypedOps /\ StatusOutside(t))
            => /\ ret[t].err # NoErr
               /\ ret[t].val = ZeroOf(call[t].op)

\* C1 happens: GetAccount answered 404 with a body that would decode to an account
C1_Witness ==
    \E t \in Procs :
        /\ Answered(t) /\ call[t].op = "GetAccount"
        /\ resp[t].code = 404 /\ resp[t].body = AccountJSON
        /\ ret[t].val = ZeroAccount /\ ret[t].err # NoErr

\* The top-level JSON type each typed operation decodes into
TargetType(op) == IF op = "GetProjects" THEN "array" ELSE "object"
TargetTags(op) ==
    CASE op = "GetAccount" -> AccountTags
      [] op = "GetProjects" -> ProjectTags
      [] OTHER -> TimeEntryTags

\* The body is JSON but not of the shape the operation expects: a top-level
\* value of another type, or a member of another type than its field
ShapeMismatch(op, data) ==
    /\ ValidJSON(data)
    /\ \/ data.doc.t \notin {TargetType(op), "null"}
       \/ data.doc.t = "object" /\ data.doc.t = TargetType(op)
          /\ AnyMismatch(data.doc.obj, TargetTags(op))
       \/ data.doc.t = "array" /\ data.doc.t = TargetType(op)
          /\ \E i \in 1..Len(data.doc.elems) :
                AnyMismatch(data.doc.elems[i], TargetTags(op))

\* C2: a typed operation answered with a status in [200,400) and a body that
\* is not valid JSON, or not of the expected shape, returns a non-nil error.
C2_MalformedBodyIsAnError ==
    \A t \in Procs :
        (/\ Answered(t) /\ call[t].op \in TypedOps /\ ~StatusOutside(t)
         /\ (~ValidJSON(resp[t].body) \/ ShapeMismatch(call[t].op, resp[t].body)))
            => ret[t].err # NoErr

\* C3: no call crashes the process.
C3_NeverCrashes == ~crashed /\ \A t \in Procs : pc[t] # "panic"

TransportOps == HelperOps \cup {"DeleteTimeEntry"}

\* C4: a transport helper (or DeleteTimeEntry) whose request was answered with
\* a status outside [200,400) returns the body it read together with an error
\* whose message is the status line; when the connection or the read failed it
\* returns a nil body and that failure.
C4_StatusLineAndBody ==
    \A t \in Procs :
        (Returned(t) /\ wire[t] # << >> /\ call[t].op \in TransportOps)
            => /\ (Answered(t) /\ StatusOutside(t))
                    => /\ ret[t].err # NoErr
                       /\ ret[t].err.msg = resp[t].status
                       /\ ret[t].val = resp[t].body
                       /\ ~ret[t].val.nil
               /\ resp[t].neterr => ret[t] = [val |-> NilBytes, err |-> NetworkError]
               /\ (~resp[t].neterr /\ resp[t].readerr)
                    => ret[t] = [val |-> NilBytes, err |-> ReadError]

\* C5: StartTimeEntry, answered 2xx with the posted object plus a non-empty
\* server-assigned id, returns a nil error and an entry with that id whose
\* project id, task id, description, tag ids and billable flag are the request's.
C5_StartRoundTrip ==
    \A t \in Procs :
        (/\ Answered(t) /\ call[t].op = "StartTimeEntry"
         /\ resp[t] = Echo(wire[t][1].body))
            => /\ ret[t].err = NoErr
               /\ ret[t].val.ID = ServerID /\ ret[t].val.ID # << >>
               /\ ret[t].val.Pid = call[t].ter.Pid
               /\ ret[t].val.Tid = call[t].ter.Tid
               /\ ret[t].val.Description = call[t].ter.Description
               /\ ret[t].val.Tags = call[t].ter.Tags
               /\ ret[t].val.Billable = call[t].ter.Billable

RECURSIVE SplitOn(_, _)
SplitOn(s, sep) ==
    IF \A i \in 1..Len(s) : s[i] # sep THEN <<s>>
    ELSE LET i == CHOOSE j \in 1..Len(s) :
                    s[j] = sep /\ \A k \in 1..(j - 1) : s[k] # sep
         IN  <<SubSeq(s, 1, i - 1)>> \o SplitOn(SubSeq(s, i + 1, Len(s)), sep)

HexChar(h, l) ==
    CASE <<h, l>> = <<"2", "0">> -> " "
      [] <<h, l>> = <<"2", "5">> -> "%"
      [] <<h, l>> = <<"2", "6">> -> "&"
      [] <<h, l>> = <<"2", "B">> -> "+"
      [] <<h, l>> = <<"3", "D">> -> "="
      [] OTHER -> "?"

RECURSIVE QueryUnescape(_)
QueryUnescape(s) ==
    IF s = << >> THEN << >>
    ELSE IF Head(s) = "+" THEN <<" ">> \o QueryUnescape(Tail(s))
    ELSE IF Head(s) = "%" /\ Len(s) >= 3
    THEN <<HexChar(s[2], s[3])>> \o QueryUnescape(SubSeq(s, 4, Len(s)))
    ELSE <<Head(s)>> \o QueryUnescape(Tail(s))

\* The <<key, value>> pairs of a query string, in order
QueryPairs(q) ==
    LET segs == SelectSeq(SplitOn(q, "&"), LAMBDA x : x # << >>)
        KeyOf(x) == QueryUnescape(SplitOn(x, "=")[1])
        ValueOf(x) == LET parts == SplitOn(x, "=")
                      IN  QueryUnescape(Join(Tail(parts), <<"=">>))
    IN  [i \in 1..Len(segs) |-> <<KeyOf(segs[i]), ValueOf(segs[i])>>]

\* C7: the URL get builds is base URL + path, then, unless the map is nil, "?"
\* and a query string that, read back, holds every key of the map exactly once
\* with its value and no other key; a nil map adds nothing, an empty one "?".
C7_QueryHoldsEveryKeyOnce ==
    \A t \in Procs :
        call[t].op = "get"
            => LET p == call[t].params
                   base == ClockifyAPI \o <<"/user">>
                   u == req[t].url
               IN  IF p.nil THEN u = base
                   ELSE /\ Len(u) > Len(base)
                        /\ SubSeq(u, 1, Len(base)) = base
                        /\ u[Len(base) + 1] = "?"
                        /\ LET pairs == QueryPairs(SubSeq(u, Len(base) + 2, Len(u)))
                           IN  /\ \A k \in DOMAIN p.m :
                                    /\ Cardinality({i \in 1..Len(pairs) : pairs[i][1] = k}) = 1
                                    /\ \A i \in 1..Len(pairs) :
                                          pairs[i][1] = k => pairs[i][2] = p.m[k]
                               /\ \A i \in 1..Len(pairs) : pairs[i][1] \in DOMAIN p.m

\* C7 happens: two keys, one of them and one of the values in need of escaping
C7_Witness ==
    \E t \in Procs :
        /\ pc[t] = "sent" /\ call[t].op = "get" /\ ~call[t].params.nil
        /\ DOMAIN call[t].params.m = QueryKeys
        /\ call[t].params.m[<<"b", "=">>] = <<"&", "=">>
        /\ call[t].params.m[<<"a">>] = <<" ", "%">>

\* Two callers whose calls had the same arguments and got the same answer
SameCallSameAnswer(t1, t2) ==
    /\ Returned(t1) /\ Returned(t2)
    /\ call[t1] = call[t2] /\ resp[t1] = resp[t2]

\* The whole of the caller's call ran with the log silenced, or with it on
RanSilenced(t) == printed[t] > 0 /\ lines[t] = 0
RanLogging(t) == printed[t] > 0 /\ lines[t] = printed[t]

\* C8: whenever a call logs, its lines reach os.Stderr exactly when the most
\* recent toggle was EnableLog or there has been none; and two calls with the
\* same arguments and the same answer, one run silenced and one run logging,
\* return the same value and error.
C8_LogToggleLastWriterWins ==
    /\ [][\A t \in Procs :
            printed'[t] > printed[t]
                => ((lines'[t] > lines[t]) <=> (lastToggle \in {"none", "enable"}))]_vars
    /\ [](\A t1, t2 \in Procs :
            (SameCallSameAnswer(t1, t2) /\ RanSilenced(t1) /\ RanLogging(t2))
                => ret[t1] = ret[t2])

\* C8 happens: after DisableLog then EnableLog, one caller has run silenced and
\* another, with the same call and answer, logging
C8_Witness ==
    \E t1, t2 \in Procs :
        /\ lastToggle = "enable"
        /\ SameCallSameAnswer(t1, t2) /\ RanSilenced(t1) /\ RanLogging(t2)
        /\ call[t1].op = "StartTimeEntry" /\ ret[t1].err = NoErr
        /\ ret[t1] = ret[t2]

\* C9: a resource operation hands client.Do at most one request; once it is
\* over it has handed it exactly one, unless serializing the payload failed,
\* and then none, returning that failure.
C9_ExactlyOneRequest ==
    \A t \in Procs :
        call[t].op \in ResourceOps
            => /\ Len(wire[t]) <= 1
               /\ pc[t] \in {"done", "panic"}
                    => \/ Len(wire[t]) = 1
                       \/ /\ Len(wire[t]) = 0
                          /\ pc[t] = "done"
                          /\ ret[t].err = UnsupportedTypeError

StopPayloadSetsOnlyEnd(t) ==
    /\ ValidJSON(req[t].body) /\ req[t].body.doc.t = "object"
    /\ DOMAIN req[t].body.doc.obj = {"end"}
    /\ StringField(req[t].body.doc.obj, "end") = FormatRFC3339(call[t].at)

C12_IsActiveMeansNotArchived ==
    \A t \in Procs :
        /\ Answered(t) /\ call[t].op = "GetProjects" /\ ret[t].err = NoErr
        /\ resp[t].body.doc.t = "array"
        => /\ Len(ret[t].val) = Len(resp[t].body.doc.elems)
           /\ \A i \in 1..Len(ret[t].val) :
                  LET record == resp[t].body.doc.elems[i]
                  IN  "archived" \in DOMAIN record /\ record["archived"].t = "bool"
                          => (IsActive(ret[t].val[i])
                                <=> record["archived"].v # <<"true">>)

=============================================================================
